---- MODULE Spec2Model ----
(***************************************************************************)
(* KVStorage<Clock> (src/include/kv_storage.h): a std::map of records, a   *)
(* std::set of (expiry, key) pairs and one std::shared_mutex.              *)
(*                                                                         *)
(* Spec      : the public methods as atomic calls on one engine, with the  *)
(*             test clock advancing between calls.                         *)
(* ConcSpec  : threads calling the methods, each method split into the     *)
(*             steps it takes under its lock.                              *)
(* RWSpec    : the ConcurrentReadWrite scenario: writers set their own     *)
(*             keys while readers get.                                     *)
(*                                                                         *)
(* Keys are strings, modelled as sequences of character codes and compared *)
(* lexicographically as std::string::operator< does.  An optional<T> is a  *)
(* set with at most one element ({} is std::nullopt).                      *)
(***************************************************************************)
EXTENDS Integers, Sequences, FiniteSets, TLC

\* ---------------------------------------------------------------- bounds
\* The keys the callers use: "a" and "aa".
Keys == {<<1>>, <<1, 1>>}
\* The bound keys handed to getManySorted: the keys, the empty string and "b".
BoundKeys == Keys \cup {<<>>, <<2>>}
\* The values the callers store.
Values == {"v1", "v2"}
\* The clock runs from 0 to MaxTime seconds.
MaxTime == 1
\* ttl arguments are 0..MaxTTL.
MaxTTL == 1
\* count arguments are 0..MaxCount.
MaxCount == 2

\* A default-constructed std::string.
EmptyString == ""
\* The bytes of a destroyed std::string once they no longer spell its key.
GarbageKey == <<0>>

VARIABLES records,       \* records_ : key -> [value, expiry]
          expiry_queue,  \* expiry_queue_ : set of [expiry, key]
          now,           \* what clock_.now() returns
          last,          \* the last completed call: [op, ret], and for a call of
                         \* Spec that erased a record, erased: {<<key, record>>}
          lastSet,       \* history: key -> {[value, expiry]} of the latest set
                         \* (key, ...) not followed by a remove(key) call
          removed,       \* history: keys whose latest set/remove call is a
                         \* remove that returned true
          mutex,         \* mutex_ : [writer, readers], the threads holding it
          pc,            \* thread -> the step of its call it is at
          call,          \* thread -> the call it is in: [op, key, value, ttl, count]
          loc,           \* thread -> the locals of its call
          calls          \* thread -> the number of calls it has issued

svars == <<records, expiry_queue, now, last, lastSet, removed>>
tvars == <<mutex, pc, call, loc, calls>>
vars == <<records, expiry_queue, now, last, lastSet, removed,
          mutex, pc, call, loc, calls>>

\* The threads of ConcSpec.
Threads == {"t1", "t2", "t3"}
\* The threads of ConcSpec issue at most MaxCalls calls in all.
MaxCalls == 2
\* Each thread of RWSpec issues at most MaxCallsEach calls.
MaxCallsEach == 1

\* ------------------------------------------------------- std::string order
Min(a, b) == IF a < b THEN a ELSE b

\* std::string operator< : lexicographic, a proper prefix is smaller.
KeyLess(a, b) ==
    \E i \in 1..(Min(Len(a), Len(b)) + 1) :
        /\ \A j \in 1..(i - 1) : a[j] = b[j]
        /\ \/ (i > Len(a) /\ i <= Len(b))
           \/ (i <= Len(a) /\ i <= Len(b) /\ a[i] < b[i])

\* The comparison with the tuple reversed: std::tie(key, expiry).
EntryLessKeyFirst(x, y) ==
    \/ KeyLess(x.key, y.key)
    \/ (x.key = y.key /\ x.expiry < y.expiry)

\* ExpiryEntry::operator< : std::tie(expiry, key) < std::tie(o.expiry, o.key)
EntryLess(x, y) ==
    \/ x.expiry < y.expiry
    \/ (x.expiry = y.expiry /\ KeyLess(x.key, y.key))

\* begin(expiry_queue_) of a non-empty queue: its least element.
QueueBegin(q) == CHOOSE x \in q : \A y \in q \ {x} : EntryLess(x, y)

\* The keys of a std::map in iteration order.
RECURSIVE SortedKeys(_)
SortedKeys(S) ==
    IF S = {} THEN <<>>
    ELSE LET m == CHOOSE x \in S : \A y \in S \ {x} : KeyLess(x, y)
         IN <<m>> \o SortedKeys(S \ {m})

\* records_[key] = rec
MapAssign(m, key, rec) ==
    [k \in DOMAIN m \cup {key} |-> IF k = key THEN rec ELSE m[k]]

\* records_.erase(key)
MapErase(m, key) == [k \in DOMAIN m \ {key} |-> m[k]]

\* ------------------------------------------------------------- the methods
\* set, line 34-36: the expiry of a new record.
SetExpiry(ttl) == IF ttl # 0 THEN {now + ttl} ELSE {}

\* set, line 38: the Record Store after set(key, value, ttl).
SetRecords(key, value, ttl) ==
    MapAssign(records, key, [value |-> value, expiry |-> SetExpiry(ttl)])

\* A set that indexes a key only when it creates the record.
SetQueueOnlyNewKeys(key, ttl) ==
    IF SetExpiry(ttl) # {} /\ key \notin DOMAIN records
    THEN expiry_queue \cup {[expiry |-> e, key |-> key] : e \in SetExpiry(ttl)}
    ELSE expiry_queue

\* set, line 39-41: the Expiry Index after set(key, value, ttl).
SetQueue(key, ttl) ==
    IF SetExpiry(ttl) # {}
    THEN expiry_queue \cup {[expiry |-> e, key |-> key] : e \in SetExpiry(ttl)}
    ELSE expiry_queue

\* get with the boundary test *expire < clock_.now().
getStrict(key) ==
    IF key \notin DOMAIN records THEN {}
    ELSE IF \E e \in records[key].expiry : e < now THEN {}
    ELSE {records[key].value}

\* get: what get(key) returns in the current state.
get(key) ==
    IF key \notin DOMAIN records THEN {}
    ELSE IF \E e \in records[key].expiry : e <= now THEN {}
    ELSE {records[key].value}

\* lower_bound alone: the walk starts at an entry whose key equals the bound.
StartIndexInclusive(keys, key) ==
    IF \E i \in 1..Len(keys) : ~KeyLess(keys[i], key)
    THEN CHOOSE i \in 1..Len(keys) :
             /\ ~KeyLess(keys[i], key)
             /\ \A j \in 1..(i - 1) : KeyLess(keys[j], key)
    ELSE Len(keys) + 1

\* getManySorted, line 76-80: the index in iteration order where the walk starts.
StartIndex(keys, key) ==
    LET lb == IF \E i \in 1..Len(keys) : ~KeyLess(keys[i], key)
              THEN CHOOSE i \in 1..Len(keys) :
                       /\ ~KeyLess(keys[i], key)
                       /\ \A j \in 1..(i - 1) : KeyLess(keys[j], key)
              ELSE Len(keys) + 1
    IN IF lb <= Len(keys) /\ keys[lb] = key THEN lb + 1 ELSE lb

\* getManySorted, line 82-87: the loop from iterator position i.
RECURSIVE Walk(_, _, _, _)
Walk(keys, i, count, result) ==
    IF i <= Len(keys) /\ Len(result) < count
    THEN LET r == records[keys[i]]
         IN IF r.expiry = {} \/ (\E e \in r.expiry : e > now)
            THEN Walk(keys, i + 1, count, Append(result, <<keys[i], r.value>>))
            ELSE Walk(keys, i + 1, count, result)
    ELSE result

\* getManySorted: what getManySorted(key, count) returns in the current state.
getManySorted(key, count) ==
    LET keys == SortedKeys(DOMAIN records)
    IN Walk(keys, StartIndex(keys, key), count, <<>>)

\* removeOneExpiredEntry, line 94: the test on the least pair of the index.
ReapDue ==
    /\ expiry_queue # {}
    /\ QueueBegin(expiry_queue).expiry <= now

\* removeOneExpiredEntry, line 95: records_[it->key].value, which
\* default-constructs the record of a key that is not stored.
ReapValue(key) ==
    IF key \in DOMAIN records THEN records[key].value ELSE EmptyString

\* removeOneExpiredEntry, line 98: it->key is read after expiry_queue_.erase(it)
\* destroyed the node: the bytes read are the key or anything else.
ReapReturnedKeys(key) == {key, GarbageKey}

\* ------------------------------------------------- atomic calls (Spec)
Init ==
    /\ records = [k \in {} |-> 0]
    /\ expiry_queue = {}
    /\ now = 0
    /\ last = [op |-> "construct", ret |-> {}]
    /\ lastSet = [k \in Keys |-> {}]
    /\ removed = {}
    /\ mutex = [writer |-> {}, readers |-> {}]
    /\ pc = [t \in Threads |-> "idle"]
    /\ call = [t \in Threads |-> <<>>]
    /\ loc = [t \in Threads |-> <<>>]
    /\ calls = [t \in Threads |-> 0]

\* void set(std::string key, std::string value, uint32_t ttl = 0)
Set(key, value, ttl) ==
    /\ records' = SetRecords(key, value, ttl)
    /\ expiry_queue' = SetQueue(key, ttl)
    /\ last' = [op |-> "set", ret |-> {}]
    /\ lastSet' = [lastSet EXCEPT
                     ![key] = {[value |-> value, expiry |-> SetExpiry(ttl)]}]
    /\ removed' = removed \ {key}
    /\ UNCHANGED <<now, tvars>>

\* A remove that forgets the Expiry Index.
RemoveQueueKeepingPair(key) == expiry_queue

\* remove, line 51-54: the Expiry Index after a remove(key) that found key.
RemoveQueue(key) ==
    IF records[key].expiry # {}
    THEN expiry_queue \ {[expiry |-> e, key |-> key] : e \in records[key].expiry}
    ELSE expiry_queue

\* bool remove(std::string_view key)
Remove(key) ==
    /\ IF key \notin DOMAIN records
       THEN /\ UNCHANGED <<records, expiry_queue, removed>>
            /\ last' = [op |-> "remove", ret |-> FALSE]
       ELSE /\ expiry_queue' = RemoveQueue(key)
            /\ records' = MapErase(records, key)
            /\ removed' = removed \cup {key}
            /\ last' = [op |-> "remove", ret |-> TRUE,
                        erased |-> {<<key, records[key]>>}]
    /\ lastSet' = [lastSet EXCEPT ![key] = {}]
    /\ UNCHANGED <<now, tvars>>

\* A get that erases the expired record it finds.
GetErasingExpired(key) ==
    /\ last' = [op |-> "get", ret |-> get(key)]
    /\ records' = IF key \in DOMAIN records /\ get(key) = {}
                  THEN MapErase(records, key) ELSE records
    /\ UNCHANGED <<expiry_queue, now, lastSet, removed, tvars>>

\* std::optional<std::string> get(std::string_view key) const
Get(key) ==
    /\ last' = [op |-> "get", ret |-> get(key)]
    /\ UNCHANGED <<records, expiry_queue, now, lastSet, removed, tvars>>

\* std::vector<std::pair<...>> getManySorted(std::string_view key, uint32_t count) const
GetManySorted(key, count) ==
    /\ last' = [op |-> "getManySorted", ret |-> getManySorted(key, count)]
    /\ UNCHANGED <<records, expiry_queue, now, lastSet, removed, tvars>>

\* std::optional<std::pair<...>> removeOneExpiredEntry()
RemoveOneExpiredEntry ==
    /\ IF ReapDue
       THEN LET it == QueueBegin(expiry_queue)
            IN /\ records' = MapErase(records, it.key)
               /\ expiry_queue' = expiry_queue \ {it}
               /\ \E rk \in ReapReturnedKeys(it.key) :
                      last' = [op |-> "removeOneExpiredEntry",
                               ret |-> {<<rk, ReapValue(it.key)>>},
                               erased |-> {<<k, records[k]>> : k \in {it.key} \cap DOMAIN records}]
       ELSE /\ UNCHANGED <<records, expiry_queue>>
            /\ last' = [op |-> "removeOneExpiredEntry", ret |-> {}]
    /\ UNCHANGED <<now, lastSet, removed, tvars>>

\* TestClock::advance: the clock moves on between calls.
Advance ==
    /\ now < MaxTime
    /\ now' = now + 1
    /\ last' = [op |-> "advance", ret |-> {}]
    /\ UNCHANGED <<records, expiry_queue, lastSet, removed, tvars>>

Next ==
    \/ \E key \in Keys, value \in Values, ttl \in 0..MaxTTL : Set(key, value, ttl)
    \/ \E key \in Keys : Remove(key)
    \/ \E key \in Keys : Get(key)
    \/ \E key \in BoundKeys, count \in 0..MaxCount : GetManySorted(key, count)
    \/ RemoveOneExpiredEntry
    \/ Advance

Spec == Init /\ [][Next]_vars

\* --------------------------------------- the bulk constructor (CtorSpec)
\* KVStorage(entries, clock), line 27-29: the constructor calls set once per
\* triple, in order, before any other call; then the engine is read and reaped.
CtorNext ==
    \/ /\ last.op \in {"construct", "set"}
       /\ \E key \in Keys, value \in Values, ttl \in 0..MaxTTL : Set(key, value, ttl)
    \/ \E key \in Keys : Get(key)
    \/ \E key \in BoundKeys, count \in 0..MaxCount : GetManySorted(key, count)
    \/ RemoveOneExpiredEntry
    \/ Advance

CtorSpec == Init /\ [][CtorNext]_vars

\* ------------------------------------------- calls by threads (ConcSpec)
\* set taking a shared lock, as the readers do.
LockKindSharedSet(op) ==
    IF op \in {"remove", "removeOneExpiredEntry"} THEN "unique" ELSE "shared"

\* The lock each method takes on mutex_ (lines 33, 45, 59, 74, 92).
LockKind(op) ==
    IF op \in {"set", "remove", "removeOneExpiredEntry"} THEN "unique" ELSE "shared"

\* A unique lock that does not wait for the readers to leave.
CanLockIgnoringReaders(t) == mutex.writer = {}

\* std::unique_lock / std::shared_lock constructor: whether thread t's lock()
\* or lock_shared() on the std::shared_mutex returns.
CanLock(t) ==
    IF LockKind(call[t].op) = "unique"
    THEN mutex.writer = {} /\ mutex.readers = {}
    ELSE mutex.writer = {}

\* mutex_ once thread t holds it.
Locked(t) ==
    IF LockKind(call[t].op) = "unique"
    THEN [mutex EXCEPT !.writer = {t}]
    ELSE [mutex EXCEPT !.readers = @ \cup {t}]

\* A path out of a method that leaves the unique lock held.
UnlockedReadersOnly(t) == [mutex EXCEPT !.readers = @ \ {t}]

\* The destructor of the lock at the end of the method: mutex_ once thread t
\* has released it.
Unlocked(t) == [writer |-> mutex.writer \ {t}, readers |-> mutex.readers \ {t}]

\* The first step of each method under its lock.
FirstStep(op) ==
    CASE op = "set" -> "set_expiry"
      [] op = "remove" -> "remove_find"
      [] op = "get" -> "get_read"
      [] op = "getManySorted" -> "gms_read"
      [] op = "removeOneExpiredEntry" -> "reap_test"

\* The calls the threads of ConcSpec issue.
ConcCalls ==
    {[op |-> "set", key |-> <<1>>, value |-> "v1", ttl |-> l] : l \in {0, 1}}
    \cup {[op |-> "remove", key |-> <<1>>]}
    \cup {[op |-> "get", key |-> <<1>>]}
    \cup {[op |-> "getManySorted", key |-> <<>>, count |-> 1]}
    \cup {[op |-> "removeOneExpiredEntry"]}

\* The number of calls issued so far.
RECURSIVE CallsOf(_)
CallsOf(T) ==
    IF T = {} THEN 0
    ELSE LET t == CHOOSE x \in T : TRUE IN calls[t] + CallsOf(T \ {t})

\* A thread enters a method.
Enter(t, c) ==
    /\ pc[t] = "idle"
    /\ pc' = [pc EXCEPT ![t] = "lock"]
    /\ call' = [call EXCEPT ![t] = c]
    /\ calls' = [calls EXCEPT ![t] = @ + 1]
    /\ UNCHANGED <<svars, mutex, loc>>

\* A thread of ConcSpec enters a method.
Call(t, c) ==
    /\ CallsOf(Threads) < MaxCalls
    /\ Enter(t, c)

\* std::unique_lock l(mutex_) / std::shared_lock l(mutex_)
Lock(t) ==
    /\ pc[t] = "lock"
    /\ CanLock(t)
    /\ mutex' = Locked(t)
    /\ pc' = [pc EXCEPT ![t] = FirstStep(call[t].op)]
    /\ UNCHANGED <<svars, call, loc, calls>>

\* set, line 34-38: the expiry, and the lookup of key in records_.
SetExpiryStep(t) ==
    /\ pc[t] = "set_expiry"
    /\ loc' = [loc EXCEPT ![t] = [expiry |-> SetExpiry(call[t].ttl), map |-> records]]
    /\ pc' = [pc EXCEPT ![t] = "set_records"]
    /\ UNCHANGED <<svars, mutex, call, calls>>

\* set, line 38: the record is written into the map that the lookup saw.
SetRecordsStep(t) ==
    /\ pc[t] = "set_records"
    /\ records' = MapAssign(loc[t].map, call[t].key,
                            [value |-> call[t].value, expiry |-> loc[t].expiry])
    /\ loc' = [loc EXCEPT ![t] = [expiry |-> loc[t].expiry]]
    /\ pc' = [pc EXCEPT ![t] = "set_queue"]
    /\ UNCHANGED <<expiry_queue, now, last, lastSet, removed, mutex, call, calls>>

\* set, line 39-41
SetQueueStep(t) ==
    /\ pc[t] = "set_queue"
    /\ expiry_queue' = expiry_queue \cup
           {[expiry |-> e, key |-> call[t].key] : e \in loc[t].expiry}
    /\ loc' = [loc EXCEPT ![t] = [ret |-> {}]]
    /\ pc' = [pc EXCEPT ![t] = "unlock"]
    /\ UNCHANGED <<records, now, last, lastSet, removed, mutex, call, calls>>

\* remove, line 46-49
RemoveFindStep(t) ==
    /\ pc[t] = "remove_find"
    /\ IF call[t].key \notin DOMAIN records
       THEN /\ loc' = [loc EXCEPT ![t] = [ret |-> FALSE]]
            /\ pc' = [pc EXCEPT ![t] = "unlock"]
       ELSE /\ loc' = [loc EXCEPT ![t] = <<>>]
            /\ pc' = [pc EXCEPT ![t] = "remove_queue"]
    /\ UNCHANGED <<svars, mutex, call, calls>>

\* remove, line 51-53
RemoveQueueStep(t) ==
    /\ pc[t] = "remove_queue"
    /\ expiry_queue' = RemoveQueue(call[t].key)
    /\ pc' = [pc EXCEPT ![t] = "remove_records"]
    /\ UNCHANGED <<records, now, last, lastSet, removed, mutex, call, loc, calls>>

\* remove, line 54-55
RemoveRecordsStep(t) ==
    /\ pc[t] = "remove_records"
    /\ records' = MapErase(records, call[t].key)
    /\ loc' = [loc EXCEPT ![t] = [ret |-> TRUE]]
    /\ pc' = [pc EXCEPT ![t] = "unlock"]
    /\ UNCHANGED <<expiry_queue, now, last, lastSet, removed, mutex, call, calls>>

\* get, line 60-69
GetReadStep(t) ==
    /\ pc[t] = "get_read"
    /\ loc' = [loc EXCEPT ![t] = [ret |-> get(call[t].key)]]
    /\ pc' = [pc EXCEPT ![t] = "unlock"]
    /\ UNCHANGED <<svars, mutex, call, calls>>

\* getManySorted, line 75-88
GmsReadStep(t) ==
    /\ pc[t] = "gms_read"
    /\ loc' = [loc EXCEPT ![t] = [ret |-> getManySorted(call[t].key, call[t].count)]]
    /\ pc' = [pc EXCEPT ![t] = "unlock"]
    /\ UNCHANGED <<svars, mutex, call, calls>>

\* removeOneExpiredEntry, line 93-94 and 100
ReapTestStep(t) ==
    /\ pc[t] = "reap_test"
    /\ IF ReapDue
       THEN /\ loc' = [loc EXCEPT ![t] = [it |-> QueueBegin(expiry_queue)]]
            /\ pc' = [pc EXCEPT ![t] = "reap_value"]
       ELSE /\ loc' = [loc EXCEPT ![t] = [ret |-> {}]]
            /\ pc' = [pc EXCEPT ![t] = "unlock"]
    /\ UNCHANGED <<svars, mutex, call, calls>>

\* removeOneExpiredEntry, line 95: records_[it->key] inserts a default record
\* when the key is not stored.
ReapValueStep(t) ==
    /\ pc[t] = "reap_value"
    /\ records' = IF loc[t].it.key \in DOMAIN records THEN records
                  ELSE MapAssign(records, loc[t].it.key,
                                 [value |-> EmptyString, expiry |-> {}])
    /\ loc' = [loc EXCEPT ![t] = [it |-> loc[t].it, value |-> ReapValue(loc[t].it.key)]]
    /\ pc' = [pc EXCEPT ![t] = "reap_records"]
    /\ UNCHANGED <<expiry_queue, now, last, lastSet, removed, mutex, call, calls>>

\* removeOneExpiredEntry, line 96
ReapRecordsStep(t) ==
    /\ pc[t] = "reap_records"
    /\ records' = MapErase(records, loc[t].it.key)
    /\ pc' = [pc EXCEPT ![t] = "reap_queue"]
    /\ UNCHANGED <<expiry_queue, now, last, lastSet, removed, mutex, call, loc, calls>>

\* removeOneExpiredEntry, line 97-98
ReapQueueStep(t) ==
    /\ pc[t] = "reap_queue"
    /\ expiry_queue' = expiry_queue \ {loc[t].it}
    /\ \E rk \in ReapReturnedKeys(loc[t].it.key) :
           loc' = [loc EXCEPT ![t] = [ret |-> {<<rk, loc[t].value>>}]]
    /\ pc' = [pc EXCEPT ![t] = "unlock"]
    /\ UNCHANGED <<records, now, last, lastSet, removed, mutex, call, calls>>

\* The method returns: its lock is released and the caller has the result.
Unlock(t) ==
    /\ pc[t] = "unlock"
    /\ mutex' = Unlocked(t)
    /\ last' = [op |-> call[t].op, ret |-> loc[t].ret]
    /\ pc' = [pc EXCEPT ![t] = "idle"]
    /\ call' = [call EXCEPT ![t] = <<>>]
    /\ loc' = [loc EXCEPT ![t] = <<>>]
    /\ UNCHANGED <<records, expiry_queue, now, lastSet, removed, calls>>

\* TestClock::advance while threads run.
Tick ==
    /\ now < MaxTime
    /\ now' = now + 1
    /\ UNCHANGED <<records, expiry_queue, last, lastSet, removed, tvars>>

\* A step of thread t inside a call.
Step(t) ==
    \/ Lock(t)
    \/ SetExpiryStep(t)
    \/ SetRecordsStep(t)
    \/ SetQueueStep(t)
    \/ RemoveFindStep(t)
    \/ RemoveQueueStep(t)
    \/ RemoveRecordsStep(t)
    \/ GetReadStep(t)
    \/ GmsReadStep(t)
    \/ ReapTestStep(t)
    \/ ReapValueStep(t)
    \/ ReapRecordsStep(t)
    \/ ReapQueueStep(t)
    \/ Unlock(t)

ConcNext ==
    \/ \E t \in Threads, c \in ConcCalls : Call(t, c)
    \/ \E t \in Threads : Step(t)
    \/ Tick

\* Every thread inside a call keeps running; a thread waiting for the lock gets
\* it if the lock stays available.
ConcSpec == Init /\ [][ConcNext]_vars /\ \A t \in Threads : WF_vars(Step(t))

\* ------------------------------ the ConcurrentReadWrite scenario (RWSpec)
\* The writer threads, each with a key and a value of its own; the other
\* threads read.
Writers == {"t1", "t2"}
WriterKey(t) == IF t = "t1" THEN <<1>> ELSE <<1, 1>>
WriterValue(t) == IF t = "t1" THEN "v1" ELSE "v2"

\* A writer calls set(key_t, value_t), a reader calls get on some key.
RWCall(t) ==
    /\ calls[t] < MaxCallsEach
    /\ IF t \in Writers
       THEN Enter(t, [op |-> "set", key |-> WriterKey(t), value |-> WriterValue(t),
                      ttl |-> 0])
       ELSE \E k \in Keys : Enter(t, [op |-> "get", key |-> k])

RWNext ==
    \E t \in Threads :
        \/ RWCall(t)
        \/ Lock(t)
        \/ SetExpiryStep(t)
        \/ SetRecordsStep(t)
        \/ SetQueueStep(t)
        \/ GetReadStep(t)
        \/ Unlock(t)

RWSpec == Init /\ [][RWNext]_vars

\* ------------------------------------------------------ claims under Spec
\* The pairs the Expiry Index holds when it mirrors the Record Store.
IndexOfRecords ==
    UNION {{[expiry |-> e, key |-> k] : e \in records[k].expiry} : k \in DOMAIN records}

\* C1 (invariant I1): whenever no call is running, the Expiry Index is exactly
\* the set of pairs (e, k) with k stored and e its expiry.
C1_IndexMirrorsRecords == expiry_queue = IndexOfRecords

\* C2 (durability without TTL): once set(k, v, 0) has completed and no later
\* set(k, ...) or remove(k) was issued, get(k) returns v.
C2_DurabilityWithoutTTL ==
    \A k \in Keys : \A s \in lastSet[k] :
        s.expiry = {} => get(k) = {s.value}

\* C3 (TTL boundary): once set(k, v, t), t > 0, has run at instant T and no
\* later set(k, ...) or remove(k) was issued, get(k) returns v strictly before
\* T + t and none from T + t on.
C3_TTLBoundary ==
    \A k \in Keys : \A s \in lastSet[k] : \A e \in s.expiry :
        get(k) = IF now < e THEN {s.value} ELSE {}

\* C4 (deletion): after remove(k) returned true and until k is set again,
\* get(k) returns none and no removeOneExpiredEntry call returns key k.
C4_Deletion ==
    \A k \in removed :
        /\ get(k) = {}
        /\ ~(last.op = "removeOneExpiredEntry" /\ \E p \in last.ret : p[1] = k)

\* Some stored entry has an expiry that is due.
SomeStoredExpired ==
    \E k \in DOMAIN records : \E e \in records[k].expiry : e <= now

\* C5 (reclamation detects exactly the expired state): removeOneExpiredEntry
\* returns none if and only if no stored entry has an expiry <= now.
C5_ReclamationDetectsExpired ==
    [][RemoveOneExpiredEntry => ((last'.ret = {}) <=> ~SomeStoredExpired)]_vars

\* C6 (reclamation picks the soonest): a pair (k, v) returned by
\* removeOneExpiredEntry has k stored before the call, with an expiry that is
\* the smallest among the stored entries with an expiry.
C6_ReclamationPicksSoonest ==
    [][RemoveOneExpiredEntry =>
         \A p \in last'.ret :
             /\ p[1] \in DOMAIN records
             /\ records[p[1]].expiry # {}
             /\ \A e \in records[p[1]].expiry :
                    \A k \in DOMAIN records : \A e2 \in records[k].expiry : e <= e2]_vars

\* The stored entries a range query from bound b may return.
Eligible(b) ==
    {k \in DOMAIN records :
         /\ KeyLess(b, k)
         /\ (records[k].expiry = {} \/ \E e \in records[k].expiry : e > now)}

\* r is the first n eligible entries after b, in ascending key order.
RangeResultOK(b, n, r) ==
    /\ Len(r) = Min(n, Cardinality(Eligible(b)))
    /\ \A i \in 1..Len(r) :
           /\ r[i][1] \in Eligible(b)
           /\ r[i][2] = records[r[i][1]].value
    /\ \A i \in 1..(Len(r) - 1) : KeyLess(r[i][1], r[i + 1][1])
    /\ \A k \in Eligible(b) :
           (\A i \in 1..Len(r) : r[i][1] # k) =>
               \A i \in 1..Len(r) : KeyLess(r[i][1], k)
    /\ \A i \in 1..Len(r) : r[i][1] # b
    /\ Len(r) <= n

\* C7 (range query result): in every state getManySorted(b, n) returns the
\* first n entries, in ascending key order, among the stored live entries with
\* key > b, and so did the call that has just returned.
C7_RangeQueryResult ==
    /\ \A b \in BoundKeys, n \in 0..MaxCount :
           RangeResultOK(b, n, getManySorted(b, n))
    /\ last.op = "getManySorted" =>
           \E b \in BoundKeys, n \in 0..MaxCount : RangeResultOK(b, n, last.ret)

\* A range query returned one entry and stopped at its count, having skipped a
\* stored expired entry and left the bound's own entry out.
C7_Witness ==
    /\ last.op = "getManySorted"
    /\ Len(last.ret) = 1
    /\ \E k \in DOMAIN records :
           /\ KeyLess(k, last.ret[1][1])
           /\ \E e \in records[k].expiry : e <= now
    /\ Cardinality(DOMAIN records) = 2

\* -------------------------------------------- claims under RWSpec, ConcSpec
\* Every writer has called set and every set call has returned.
AllSetsDone == \A w \in Writers : calls[w] > 0 /\ pc[w] = "idle"

\* C8 (concurrency safety): once the concurrent set(k_i, v_i, 0) calls on
\* distinct keys have all completed, get(k_i) returns v_i for every i.
C8_NoLostUpdate ==
    AllSetsDone => \A w \in Writers : get(WriterKey(w)) = {WriterValue(w)}

\* Both writers have completed after having been inside set at the same time
\* as a reader was inside get or waiting for it.
C8_Witness ==
    /\ AllSetsDone
    /\ \A w \in Writers : WriterKey(w) \in DOMAIN records
    /\ \E r \in Threads \ Writers : pc[r] \in {"lock", "get_read", "unlock"}

\* The threads inside an exclusive critical section.
InExclusive ==
    {t \in Threads :
        \/ pc[t] \in {"set_expiry", "set_records", "set_queue", "remove_find",
                      "remove_queue", "remove_records", "reap_test", "reap_value",
                      "reap_records", "reap_queue"}
        \/ (pc[t] = "unlock" /\ call[t].op \in {"set", "remove", "removeOneExpiredEntry"})}

\* The threads inside a shared critical section.
InShared ==
    {t \in Threads :
        \/ pc[t] \in {"get_read", "gms_read"}
        \/ (pc[t] = "unlock" /\ call[t].op \in {"get", "getManySorted"})}

\* The threads between their Record Store update and their Expiry Index update.
MidUpdate ==
    {t \in Threads : pc[t] \in {"set_queue", "remove_records", "reap_records", "reap_queue"}}

\* C9 (writers are atomic to readers): at most one thread is inside an
\* exclusive section, and then no thread is inside a shared one; no reader
\* reads while a writer is between its two updates.
C9_WritersAtomicToReaders ==
    /\ Cardinality(InExclusive) <= 1
    /\ (InExclusive # {} => InShared = {})
    /\ (MidUpdate # {} => \A t \in Threads : pc[t] \notin {"get_read", "gms_read"})

\* A writer is between its two updates while a reader waits for the lock.
C9_Witness ==
    /\ MidUpdate # {}
    /\ \E r \in Threads : pc[r] = "lock" /\ call[r].op \in {"get", "getManySorted"}

\* Two readers are inside their shared sections at the same time.
C9_ReadersShare == Cardinality(InShared) >= 2

\* Some thread is inside a call.
SomeCallRunning == \E t \in Threads : pc[t] # "idle"

\* C10 (no deadlock, eventual completion): whenever a call is running some
\* thread can take a step, and every call that has started, one waiting for
\* the lock included, returns.
C10_NoDeadlockAndCompletion ==
    /\ [](SomeCallRunning => ENABLED (\E t \in Threads : Step(t)))
    /\ \A t \in Threads : (pc[t] # "idle") ~> (pc[t] = "idle")

\* A thread is blocked on the lock that another thread holds.
C10_Witness ==
    \E t \in Threads : pc[t] = "lock" /\ ~CanLock(t)

\* ----------------------------------------------------- claims C11 to C20
\* What get(k) returns if only the latest set(k, ...) counts.
GetOfLastSet(k) ==
    IF \E s \in lastSet[k] : s.expiry = {} \/ \E e \in s.expiry : now < e
    THEN {s.value : s \in lastSet[k]}
    ELSE {}

\* C11 (bulk constructor): after construction from a sequence of triples, only
\* the last triple of each key is observable: get answers from it, and
\* removeOneExpiredEntry returns a key only with that triple's value and with
\* that triple's expiry due.
C11_OnlyLastTripleObservable ==
    /\ \A k \in Keys : get(k) = GetOfLastSet(k)
    /\ last.op = "removeOneExpiredEntry" =>
           \A p \in last.ret :
               /\ p[1] \in Keys
               /\ \E s \in lastSet[p[1]] :
                      s.value = p[2] /\ \E e \in s.expiry : e <= now

\* The pairs of key k in an index q.
PairsOf(q, k) == {x \in q : x.key = k}

\* C12 (set replaces the old index pair): after set(k, v, ttl) on a key stored
\* with an expiry, the index holds for k exactly (now + ttl, k) if ttl > 0 and
\* nothing if ttl = 0, and the Record Store holds (v, new expiry) for k.
C12_SetReplacesOldPair ==
    [][\A k \in Keys, v \in Values, ttl \in 0..MaxTTL :
           (Set(k, v, ttl) /\ k \in DOMAIN records /\ records[k].expiry # {}) =>
               /\ PairsOf(expiry_queue', k) =
                      (IF ttl > 0 THEN {[expiry |-> now + ttl, key |-> k]} ELSE {})
               /\ records'[k] = [value |-> v,
                                 expiry |-> IF ttl > 0 THEN {now + ttl} ELSE {}]]_vars

\* C13 (the reaped pair is the stored entry): a pair (k, v) returned by
\* removeOneExpiredEntry was stored with value v and an expiry <= now; after
\* the call k is not stored and has no pair; the other keys keep their records
\* and pairs.
C13_ReapedPairIsStoredEntry ==
    [][RemoveOneExpiredEntry =>
         \A p \in last'.ret :
             /\ p[1] \in DOMAIN records
             /\ records[p[1]].value = p[2]
             /\ \E e \in records[p[1]].expiry : e <= now
             /\ p[1] \notin DOMAIN records'
             /\ PairsOf(expiry_queue', p[1]) = {}
             /\ \A k \in Keys \ {p[1]} :
                    /\ (k \in DOMAIN records <=> k \in DOMAIN records')
                    /\ (k \in DOMAIN records => records'[k] = records[k])
                    /\ PairsOf(expiry_queue', k) = PairsOf(expiry_queue, k)]_vars

\* The stored entries whose expiry is due.
StoredExpired ==
    {k \in DOMAIN records : \E e \in records[k].expiry : e <= now}

\* C14 (drain count), call by call: with m stored entries due, a
\* removeOneExpiredEntry call returns a pair exactly when m > 0, the pair is
\* one of those entries, which is then no longer stored, so that m drops by one
\* and no entry is returned twice; a call erases at most one record.
C14_DrainCount ==
    [][RemoveOneExpiredEntry =>
         /\ (last'.ret = {} <=> StoredExpired = {})
         /\ \A p \in last'.ret :
                /\ p[1] \in StoredExpired
                /\ DOMAIN records' = DOMAIN records \ {p[1]}
         /\ Cardinality(DOMAIN records) - Cardinality(DOMAIN records') <= 1]_vars

\* C15 (reads are pure): a get or getManySorted call leaves the Record Store
\* and the Expiry Index as they were, whatever is expired.
C15_ReadsArePure ==
    [][last'.op \in {"get", "getManySorted"} =>
           records' = records /\ expiry_queue' = expiry_queue]_vars

\* get returned nothing while every key is stored, expired and still indexed.
C15_Witness ==
    /\ last.op = "get" /\ last.ret = {}
    /\ DOMAIN records = Keys
    /\ \A k \in Keys : \E e \in records[k].expiry :
           e <= now /\ [expiry |-> e, key |-> k] \in expiry_queue

\* C16 (remove reports physical presence): remove(k) returns true exactly when
\* k is in the Record Store, expired or not, and then k's record and the pair
\* of its expiry are gone; it returns false exactly when k is absent and then
\* changes nothing. Other records and pairs stay.
C16_RemoveReportsPresence ==
    [][\A k \in Keys : Remove(k) =>
           /\ last'.ret = (k \in DOMAIN records)
           /\ k \notin DOMAIN records'
           /\ \A j \in Keys \ {k} :
                  /\ (j \in DOMAIN records <=> j \in DOMAIN records')
                  /\ (j \in DOMAIN records => records'[j] = records[j])
           /\ IF k \in DOMAIN records
              THEN /\ \A e \in records[k].expiry :
                          [expiry |-> e, key |-> k] \notin expiry_queue'
                   /\ \A x \in expiry_queue :
                          x \in expiry_queue' \/
                          (x.key = k /\ records[k].expiry = {x.expiry})
                   /\ expiry_queue' \subseteq expiry_queue
              ELSE expiry_queue' = expiry_queue]_vars

\* remove returned true for a record whose expiry had passed.
C16_Witness ==
    /\ last.op = "remove"
    /\ last.ret = TRUE
    /\ \E p \in last.erased : \E e \in p[2].expiry : e <= now

\* C17 (the index minimum never misses): if the index is empty or its least
\* instant is after now, no stored entry is expired; so when
\* removeOneExpiredEntry returned none, nothing stored is expired.
C17_MinimumNeverMisses ==
    /\ (\A x \in expiry_queue : x.expiry > now) => StoredExpired = {}
    /\ (last.op = "removeOneExpiredEntry" /\ last.ret = {}) => StoredExpired = {}

\* removeOneExpiredEntry returned none on a store that holds a key with a
\* future expiry.
C17_Witness ==
    /\ last.op = "removeOneExpiredEntry"
    /\ last.ret = {}
    /\ expiry_queue # {}
    /\ \E k \in DOMAIN records : \E e \in records[k].expiry : e > now

\* C18 (reap order): of two consecutive removeOneExpiredEntry calls that return
\* a pair, the second returns an entry of a later stored expiry, or of the same
\* expiry and a greater key.
C18_ReapOrder ==
    [][(/\ last.op = "removeOneExpiredEntry"
        /\ last.ret # {}
        /\ last'.op = "removeOneExpiredEntry"
        /\ last'.ret # {}) =>
           \A p \in last.erased, q \in last'.erased :
               \A e1 \in p[2].expiry, e2 \in q[2].expiry :
                   e1 < e2 \/ (e1 = e2 /\ KeyLess(p[1], q[1]))]_vars

\* C19 (the readers agree on liveness): for every key k and bound b < k,
\* get(k) returns v iff (k, v) is in getManySorted(b, n) with n the number of
\* stored keys; a key whose expiry equals now is in neither.
C19_ReadersAgree ==
    \A k \in Keys, b \in BoundKeys :
        KeyLess(b, k) =>
            LET r == getManySorted(b, Cardinality(DOMAIN records))
            IN /\ \A v \in Values \cup {EmptyString} :
                      (get(k) = {v}) <=> (\E i \in 1..Len(r) : r[i] = <<k, v>>)
               /\ (k \in DOMAIN records /\ records[k].expiry = {now}) =>
                      /\ get(k) = {}
                      /\ \A i \in 1..Len(r) : r[i][1] # k

\* get returned nothing while every key is stored with expiry = now, and the
\* range query over all keys is empty as well.
C19_Witness ==
    /\ last.op = "get" /\ last.ret = {}
    /\ DOMAIN records = Keys
    /\ \A k \in Keys : records[k].expiry = {now}
    /\ getManySorted(<<>>, Cardinality(Keys)) = <<>>

\* C20 (the index covers the store): every stored key with an expiry e has the
\* pair (e, key) in the Expiry Index.
C20_IndexCoversStore ==
    \A k \in DOMAIN records : \A e \in records[k].expiry :
        [expiry |-> e, key |-> k] \in expiry_queue

\* removeOneExpiredEntry erased an entry, and a key is still stored with an
\* expiry, with its pair beside a stale pair of an earlier set.
C20_Witness ==
    /\ last.op = "removeOneExpiredEntry"
    /\ last.ret # {}
    /\ \E k \in DOMAIN records : \E e \in records[k].expiry :
           /\ [expiry |-> e, key |-> k] \in expiry_queue
           /\ \E x \in expiry_queue : x.key = k /\ x.expiry # e

====
